---- MODULE Spec2Model ----
(***************************************************************************)
(* Greenhouse fertilization controller (greenHouseNK).                     *)
(*                                                                         *)
(* The model follows src/src/main.cpp (setupTask), systemTasks.cpp         *)
(* (initTask, sensorTask), controller/controller.cpp, UI/ui.cpp,           *)
(* cloud/cloud.cpp, the sensor readers and the EEPROM store.               *)
(*                                                                         *)
(* float values are kept as fixed-point integers: the float x is the       *)
(* integer x * Res, so a float that is a multiple of 1/Res is exact.       *)
(* Tick counts are FreeRTOS ticks (1 tick = 1 ms, configTICK_RATE_HZ).     *)
(***************************************************************************)
EXTENDS Integers, Sequences, FiniteSets, TLC

\* --------------------------------------------------------------- bounds
Res       == 2       \* modelled floats are the multiples of 1/Res
MaxTick   == 34500   \* the tick counter is followed up to this tick
MaxJitter == 1       \* tick interrupts taken inside updateControl() calls
MaxTurns  == 2       \* encoder detents followed per run
MaxCmds   == 2       \* accepted or rejected remote commands followed per run
MaxUiTick == 1800    \* the tick counter is followed up to this tick in SpecUI
MaxSensorTick == 3000    \* ... and up to this tick in SpecSensors
MaxStoreTick == 2100     \* tick bound of the power-cycle specification
MaxBoots == 1            \* power cycles followed
MaxDriverCalls == 3      \* valve driver calls followed in SpecDrivers
MaxCycleTick == 9000     \* tick bound of the timed-cycle specification
MaxLiveTick == 66000     \* tick bound of the injection specification
MaxWrapTick == 6000      \* tick bound of the wraparound specification
MaxWraps == 1            \* full periods of the tick counter followed

\* ------------------------------------------------------ program constants
VALVE_COOLDOWN_MS  == 30000
VALVE_TIMER_MS     == 2000
SAFETY_CO2_PPM     == 2000
DEFAULT_SETPOINT   == 1500
EEPROM_FALLBACK    == 1000
REMOTE_MAX_PPM     == 1500
UI_MAX_PPM         == 1500
UI_RAW_MAX_PPM     == 3000
UI_STEP_PPM        == 10
UI_DEBOUNCE_MS     == 150
UI_SAVED_TICKS     == 20
UI_PERIOD_MS       == 1000
FAN_BOOT_PERCENT   == 75
FAN_FULL_PERCENT   == 100
FAN_RAW_FULL       == 1000
SENSOR_PERIOD_MS   == 500
CO2_MAX_ATTEMPTS   == 10
CO2_BACKOFF_MS     == 10
CO2_SETTLE_MS      == 3000
TRH_MAX_ATTEMPTS   == 5
TRH_BACKOFF_MS     == 200
TRH_STATUS_OK      == 1
TRH_DIVISOR        == 10
PRESSURE_DIVISOR   == 60
configTICK_RATE_HZ == 1000
Uint16Modulus      == 65536

\* ------------------------------------------------------------- helpers
\* static_cast<float>(n) of an integer n
F(n) == n * Res

\* Variant of the conversion that rounds up: C7 does not survive it.
ToUint16_RoundUp(x) == ((x + Res - 1) \div Res) % Uint16Modulus

\* static_cast<uint16_t>(x) of a non-negative float x: truncation toward zero
ToUint16(x) == (x \div Res) % Uint16Modulus

\* pdMS_TO_TICKS(ms)
pdMS_TO_TICKS(ms) == (ms * configTICK_RATE_HZ) \div 1000

\* uint32_t subtraction a - b of two tick counts, modulo 2^32. The result is
\* kept as its two 16-bit halves <<high, low>>.
Sub32(a, b) ==
    IF a >= b
    THEN <<(a - b) \div Uint16Modulus, (a - b) % Uint16Modulus>>
    ELSE <<(Uint16Modulus - 1) - ((b - a - 1) \div Uint16Modulus),
           (Uint16Modulus - 1) - ((b - a - 1) % Uint16Modulus)>>

\* e >= n for a uint32_t e kept as halves and 0 <= n < 2^16
GreaterEq32(e, n) == e[1] > 0 \/ e[2] >= n

Min(a, b) == IF a < b THEN a ELSE b

VARIABLES
    tick,                 \* xTaskGetTickCount()
    phase,                \* "boot" -> "init" -> "run"
    eeprom,               \* the two bytes at 0x0000 and 0x0001
    co2Setpoint, currentCO2, currentTemp, currentRH, currentPressure,
    currentFanSpeed, safetyVent, lastValveCloseTick,   \* Controller
    valveOpen,            \* ValveDriver::valveOpen
    fanSpeed, fanReg,     \* FanDriver::currentSpeed_, raw register value
    timerActive, timerExpiry,                          \* valveTimer
    co2ppm_, temperature, humidity, pressurePa,        \* sensor objects
    localCO2Setpoint_, editingSetpoint_, savedMessageTimer_, lastPressTime,
    uiWake,               \* tick at which the uiTask's vTaskDelay ends
    pc, now, elapsed,     \* sensorTask position and updateControl() locals
    wake,                 \* tick at which the sensorTask's vTaskDelay ends
    setter,               \* rotaryEventTask and cloudTask inside setCO2Setpoint()
    readOk,               \* return values of the three readSensor() calls
    jitter, turns, cmds, boots,   \* counters that bound the run
    hist                  \* history of the run the properties refer to

readv   == <<currentCO2, currentTemp, currentRH, currentPressure>>
fanv    == <<currentFanSpeed, safetyVent, fanSpeed, fanReg>>
valv    == <<valveOpen, lastValveCloseTick>>
tmr     == <<timerActive, timerExpiry>>
sens    == <<co2ppm_, temperature, humidity, pressurePa>>
uiv     == <<localCO2Setpoint_, editingSetpoint_, savedMessageTimer_,
             lastPressTime, uiWake>>
locals  == <<now, elapsed, wake, setter>>
bnd     == <<jitter, turns, cmds, boots>>

vars == <<tick, phase, eeprom, co2Setpoint, readv, fanv, valv, tmr, sens, uiv,
          pc, locals, readOk, bnd, hist>>

\* ------------------------------------------------------- EEPROMStorage
\* Variant that lays the value out low byte first: the round trip C12 states
\* does not survive it.
storeCO2Setpoint_LowFirst(mem, co2ppm, w1, w2) ==
    <<IF w1 THEN co2ppm % 256 ELSE mem[1],
      IF w2 THEN co2ppm \div 256 ELSE mem[2]>>

\* storeCO2Setpoint(co2ppm): high byte to 0x0000, low byte to 0x0001; both
\* writeByte() calls are made, w1 and w2 tell whether each I2C write succeeded
storeCO2Setpoint(mem, co2ppm, w1, w2) ==
    <<IF w1 THEN co2ppm \div 256 ELSE mem[1],
      IF w2 THEN co2ppm % 256 ELSE mem[2]>>

\* loadCO2Setpoint(): r1 and r2 tell whether each readByte() succeeded
loadCO2Setpoint(mem, r1, r2) ==
    IF ~r1 \/ ~r2 THEN EEPROM_FALLBACK ELSE mem[1] * 256 + mem[2]

\* the bytes a store holding the 16-bit value v consists of
BytesOf(v) == <<v \div 256, v % 256>>

\* ----------------------------------------------------------- FanDriver
clamp(val, lo, hi) == IF val < lo THEN lo ELSE IF val > hi THEN hi ELSE val

\* Variant without the clamp of line 44: C21 does not survive it.
setFanSpeed_NoClamp(percent) ==
    <<percent, ((percent * FAN_RAW_FULL) \div (FAN_FULL_PERCENT * Res))
                 % Uint16Modulus>>

\* setFanSpeed(percent): <<currentSpeed_, raw register value written>>
setFanSpeed(percent) ==
    LET p == clamp(percent, F(0), F(FAN_FULL_PERCENT))
    IN  <<p, (p * FAN_RAW_FULL) \div (FAN_FULL_PERCENT * Res)>>

\* --------------------------------------------------------- ValveDriver
\* valveOpen after the constructor, openValve() and closeValve(); open is
\* the flag before the call
ValveDriver_new == FALSE

\* Variant that flips the output: C22 does not survive it.
openValve_Toggle(open) == ~open

openValve(open) == TRUE

closeValve(open) == FALSE

\* ---------------------------------------------------------- Controller
\* the arguments of the storeCO2Setpoint() calls one setCO2Setpoint(x) makes
SetpointWrites(x) == <<ToUint16(x)>>

\* Variant of line 190 that keeps the old setpoint when the store write
\* fails: C15 does not survive it.
SetpointAfterSet_IfStored(old, x, w1, w2) == IF w1 /\ w2 THEN x ELSE old

\* co2Setpoint after setCO2Setpoint(x) (line 190), whatever the write outcomes
SetpointAfterSet(old, x, w1, w2) == x

\* the store after setCO2Setpoint(x)
StoreAfterSet(mem, x, w1, w2) ==
    LET ws == SetpointWrites(x)
    IN  IF ws = <<>> THEN mem ELSE storeCO2Setpoint(mem, ws[1], w1, w2)

\* ------------------------------------------------------------------ UI
\* UI::setLocalSetpoint(sp)
setLocalSetpoint(sp) == clamp(sp, F(0), F(UI_RAW_MAX_PPM))

\* UI::onEncoderTurn(delta) in edit mode
\* Variant of onEncoderTurn() without the two range checks: C32 does not
\* survive it.
onEncoderTurn_NoClamp(local, delta) == local + delta * F(UI_STEP_PPM)

onEncoderTurn(local, delta) ==
    clamp(local + delta * F(UI_STEP_PPM), F(0), F(UI_MAX_PPM))

\* ------------------------------------------------------------ history
NoTick == 0 - 1
NoCmd  == [x |-> 0, before |-> 0, memBefore |-> <<0, 0>>, writes |-> <<>>,
           seen |-> FALSE]

\* a setCO2Setpoint(x) call: v is the value passed to storeCO2Setpoint(), ok
\* its return value
NoSet  == [x |-> 0, v |-> 0, ok |-> FALSE, seen |-> FALSE]
\* the constructor's loadCO2Setpoint() call: the store it read, the outcome
\* of the two reads and the value returned
NoLoad == [mem |-> <<0, 0>>, ok |-> FALSE, value |-> 0, seen |-> FALSE]

\* The two tasks that call setCO2Setpoint() while the system runs, and where
\* each is in its call: "idle", about to run line 190 ("L190"), about to
\* write the high byte ("hi") or the low byte ("lo"), or returned ("done").
Setters  == {"ui", "cloud"}
NoSetter == [t \in Setters |-> [at |-> "idle", x |-> 0]]

\* a readSensor() call: the sensor, what the hardware answered, the stored
\* value before the call and the result
NoCall == [kind |-> "none"]

HistInit ==
    [openedAt |-> NoTick, armedAt |-> NoTick, closedAt |-> NoTick,
     closedBy |-> "none", ucOpened |-> FALSE, updates |-> 0,
     entrySafety |-> FALSE, sp129 |-> NoTick, cmd |-> NoCmd,
     uiCommit |-> NoTick,
     turned |-> FALSE,       \* a TURN event since the last accepted press
     wraps |-> 0,            \* counter periods passed since the valve closed
     lastSet |-> NoSet,      \* the last setCO2Setpoint() call since power-on
     persisted |-> NoSet,    \* the last one before the last power cycle
     load |-> NoLoad,
     initLoad |-> NoLoad,    \* the loadCO2Setpoint() call of initTask
     call |-> NoCall,        \* the readSensor() call that has just returned
     firstTry |-> FALSE,     \* this cycle's reads succeeded at once, so far
     fanReq |-> NoTick,      \* the percent of the last direct setFanSpeed()
     valveCalls |-> <<>>]    \* the direct openValve()/closeValve() calls

\* the history entry of setCO2Setpoint(x) with write outcomes w1, w2
SetCall(x, w1, w2) ==
    [x |-> x, v |-> ToUint16(x), ok |-> w1 /\ w2, seen |-> TRUE]

AllOk == [co2 |-> TRUE, trh |-> TRUE, pres |-> TRUE]

\* ---------------------------------------------------------------- Init
\* Power-on, before setupTask has built the objects. The store holds any of
\* the contents in S (a blank EEPROM reads 0xFFFF).
InitWith(S) ==
    /\ tick = 0
    /\ phase = "boot"
    /\ eeprom \in {BytesOf(v) : v \in S}
    /\ co2Setpoint = 0
    /\ currentCO2 = F(0) /\ currentTemp = F(0) /\ currentRH = F(0)
    /\ currentPressure = F(0) /\ currentFanSpeed = F(0)
    /\ safetyVent = FALSE
    /\ lastValveCloseTick = 0
    /\ valveOpen = FALSE
    /\ fanSpeed = F(0) /\ fanReg = 0
    /\ timerActive = FALSE /\ timerExpiry = 0
    /\ co2ppm_ = F(0) /\ temperature = F(0) /\ humidity = F(0) /\ pressurePa = F(0)
    /\ localCO2Setpoint_ = F(DEFAULT_SETPOINT)
    /\ editingSetpoint_ = FALSE
    /\ savedMessageTimer_ = 0
    /\ lastPressTime = 0
    /\ uiWake = 0
    /\ pc = "off"
    /\ now = 0 /\ elapsed = <<0, 0>> /\ wake = 0
    /\ setter = NoSetter
    /\ readOk = AllOk
    /\ jitter = 0 /\ turns = 0 /\ cmds = 0 /\ boots = 0
    /\ hist = HistInit

\* ---------------------------------------------------------------- boot
\* setupTask: fan to 75 %, valve driver (closed), Controller constructor
\* (setpoint from the store, timer created, lastValveCloseTick = now), UI
\* constructor (local copy of the setpoint, 1.5 s splash screen). rs holds the
\* possible outcomes of each EEPROM readByte().
UI_SPLASH_MS == 1500

SetupTask(rs) ==
    /\ phase = "boot"
    /\ tick + UI_SPLASH_MS <= MaxTick
    /\ \E r1 \in rs, r2 \in rs :
          /\ co2Setpoint' = F(loadCO2Setpoint(eeprom, r1, r2))
          /\ localCO2Setpoint_' = F(loadCO2Setpoint(eeprom, r1, r2))
          /\ hist' = [hist EXCEPT !.load =
                        [mem |-> eeprom, ok |-> r1 /\ r2,
                         value |-> loadCO2Setpoint(eeprom, r1, r2),
                         seen |-> TRUE]]
    /\ fanSpeed' = setFanSpeed(F(FAN_BOOT_PERCENT))[1]
    /\ fanReg' = setFanSpeed(F(FAN_BOOT_PERCENT))[2]
    /\ safetyVent' = FALSE
    /\ valveOpen' = ValveDriver_new
    /\ timerActive' = FALSE
    /\ lastValveCloseTick' = tick
    /\ editingSetpoint_' = FALSE
    /\ savedMessageTimer_' = 0
    /\ tick' = tick + UI_SPLASH_MS
    /\ phase' = "init"
    /\ UNCHANGED <<eeprom, readv, currentFanSpeed, timerExpiry, sens,
                   lastPressTime, uiWake, pc, locals, readOk, bnd>>

\* initTask: load the setpoint again and push it into the Controller (which
\* writes it back to the store) and into the UI. It runs at priority 3, before
\* any of the priority-1 tasks. ws holds the possible outcomes of each
\* EEPROM writeByte().
InitTask(rs, ws) ==
    /\ phase = "init"
    /\ \E r1 \in rs, r2 \in rs, w1 \in ws, w2 \in ws :
          LET sp == loadCO2Setpoint(eeprom, r1, r2)
          IN  /\ co2Setpoint' = SetpointAfterSet(co2Setpoint, F(sp), w1, w2)
              /\ eeprom' = StoreAfterSet(eeprom, F(sp), w1, w2)
              /\ localCO2Setpoint_' = setLocalSetpoint(F(sp))
              /\ hist' = [hist EXCEPT !.lastSet = SetCall(F(sp), w1, w2),
                                      !.load = NoLoad,
                                      !.initLoad =
                                         [mem |-> eeprom, ok |-> r1 /\ r2,
                                          value |-> sp, seen |-> TRUE]]
    /\ phase' = "run"
    /\ pc' = "co2"
    /\ UNCHANGED <<tick, readv, fanv, valv, tmr, sens, editingSetpoint_,
                   savedMessageTimer_, lastPressTime, uiWake, locals, readOk,
                   bnd>>

\* ------------------------------------------------------------- sensors
\* float division x / d of a fixed-point value, rounded toward zero
DivF(x, d) == IF x >= 0 THEN x \div d ELSE 0 - ((0 - x) \div d)

\* CO2Sensor::readSensor(). regs tells which of the three register pointers
\* are set; script[i] is what the registers return in attempt i:
\* [dev, st, raw]. The result is the return value, the stored co2ppm_, the
\* attempts started, the raw-register reads made and the time spent waiting.
RECURSIVE CO2Loop(_, _, _, _, _)
CO2Loop(attempt, regs, script, old, waited) ==
    IF attempt >= CO2_MAX_ATTEMPTS
    THEN [ok |-> FALSE, value |-> old, attempts |-> attempt,
          rawReads |-> attempt, waited |-> waited]
    ELSE LET r     == script[attempt + 1]
             devOK == ~regs.dev \/ r.dev = 0
             co2OK == ~regs.st \/ r.st = 0
         IN  IF ~regs.low
             THEN [ok |-> FALSE, value |-> old, attempts |-> attempt + 1,
                   rawReads |-> attempt, waited |-> waited]
             ELSE IF devOK /\ co2OK
             THEN [ok |-> TRUE, value |-> F(r.raw), attempts |-> attempt + 1,
                   rawReads |-> attempt + 1,
                   waited |-> waited + pdMS_TO_TICKS(CO2_SETTLE_MS)]
             ELSE CO2Loop(attempt + 1, regs, script, old,
                          waited + pdMS_TO_TICKS(CO2_BACKOFF_MS))

\* Variant that stores the raw value of the first attempt instead of the
\* accepted one: C17 does not survive it.
CO2_readSensor_FirstRaw(regs, script, old) ==
    LET res == CO2Loop(0, regs, script, old, 0)
    IN  IF res.ok THEN [res EXCEPT !.value = F(script[1].raw)] ELSE res

\* Variant that reads the raw register only in the attempt whose status
\* registers are clean: C18 does not survive it.
CO2_readSensor_RawIfClean(regs, script, old) ==
    LET res == CO2Loop(0, regs, script, old, 0)
    IN  [res EXCEPT !.rawReads = IF res.ok THEN 1 ELSE 0]

CO2_readSensor(regs, script, old) == CO2Loop(0, regs, script, old, 0)

\* TempRHSensor::readSensor(). script[i] = [status, rawT, rawH]. Every
\* attempt reads the three registers; regReads counts the reads of each.
RECURSIVE TRHLoop(_, _, _, _)
TRHLoop(attempt, script, old, waited) ==
    IF attempt >= TRH_MAX_ATTEMPTS
    THEN [ok |-> FALSE, temperature |-> old[1], humidity |-> old[2],
          attempts |-> attempt, waited |-> waited,
          regReads |-> [status |-> attempt, rawT |-> attempt,
                        rawH |-> attempt]]
    ELSE LET r == script[attempt + 1]
         IN  IF r.status = TRH_STATUS_OK
             THEN [ok |-> TRUE,
                   temperature |-> DivF(F(r.rawT), TRH_DIVISOR),
                   humidity |-> DivF(F(r.rawH), TRH_DIVISOR),
                   attempts |-> attempt + 1, waited |-> waited,
                   regReads |-> [status |-> attempt + 1, rawT |-> attempt + 1,
                                 rawH |-> attempt + 1]]
             ELSE TRHLoop(attempt + 1, script, old,
                          waited + pdMS_TO_TICKS(TRH_BACKOFF_MS))

\* Variant that converts the temperature of the accepted attempt but keeps
\* the old humidity: C19 does not survive it.
TRH_readSensor_TempOnly(hasRegs, script, old) ==
    IF ~hasRegs
    THEN [ok |-> FALSE, temperature |-> old[1], humidity |-> old[2],
          attempts |-> 0, waited |-> 0,
          regReads |-> [status |-> 0, rawT |-> 0, rawH |-> 0]]
    ELSE [TRHLoop(0, script, old, 0) EXCEPT !.humidity = old[2]]

TRH_readSensor(hasRegs, script, old) ==
    IF ~hasRegs
    THEN [ok |-> FALSE, temperature |-> old[1], humidity |-> old[2],
          attempts |-> 0, waited |-> 0,
          regReads |-> [status |-> 0, rawT |-> 0, rawH |-> 0]]
    ELSE TRHLoop(0, script, old, 0)

\* Variant that keeps the 16 bits unsigned: C36 does not survive it.
Int16_Unsigned(b0, b1) == b0 * 256 + b1

\* the signed 16-bit value of the two bytes read, high byte first
Int16(b0, b1) ==
    LET u == b0 * 256 + b1 IN IF u >= 32768 THEN u - Uint16Modulus ELSE u

\* Variant of the pressure reader that stores the bytes of the buffer before
\* it has looked at the read count: C10 does not survive it.
Pressure_readSensor_StoreFirst(io, old) ==
    IF ~io.bus THEN [ok |-> FALSE, value |-> old, writes |-> 0, reads |-> 0]
    ELSE IF io.written # 1
    THEN [ok |-> FALSE, value |-> old, writes |-> 1, reads |-> 0]
    ELSE [ok |-> io.readBytes = 2,
          value |-> DivF(F(Int16(io.b0, io.b1)), PRESSURE_DIVISOR),
          writes |-> 1, reads |-> 1]

\* Variant that repeats the transfer once when the read came back short:
\* C20 does not survive it.
Pressure_readSensor_Retry(io, old) ==
    IF ~io.bus THEN [ok |-> FALSE, value |-> old, writes |-> 0, reads |-> 0]
    ELSE IF io.written # 1
    THEN [ok |-> FALSE, value |-> old, writes |-> 1, reads |-> 0]
    ELSE IF io.readBytes # 2
    THEN [ok |-> FALSE, value |-> old, writes |-> 2, reads |-> 2]
    ELSE [ok |-> TRUE,
          value |-> DivF(F(Int16(io.b0, io.b1)), PRESSURE_DIVISOR),
          writes |-> 1, reads |-> 1]

\* PressureSensor::readSensor(). io = [bus, written, readBytes, b0, b1].
Pressure_readSensor(io, old) ==
    IF ~io.bus THEN [ok |-> FALSE, value |-> old, writes |-> 0, reads |-> 0]
    ELSE IF io.written # 1
    THEN [ok |-> FALSE, value |-> old, writes |-> 1, reads |-> 0]
    ELSE IF io.readBytes # 2
    THEN [ok |-> FALSE, value |-> old, writes |-> 1, reads |-> 1]
    ELSE [ok |-> TRUE,
          value |-> DivF(F(Int16(io.b0, io.b1)), PRESSURE_DIVISOR),
          writes |-> 1, reads |-> 1]

\* ------------------------------------------------------- sensor inputs
\* An attempt script: the first k attempts read the faulty registers bad, the
\* remaining ones read good.
ScriptOf(k, n, bad, good) == [i \in 1..n |-> IF i <= k THEN bad ELSE good]

\* The measurement registers move on between attempts: attempt i reads the
\* value of the first attempt plus i - 1.
Drift(v, i) == v + (i - 1)

\* setupTask builds all three CO2 registers, all three Temp/RH registers and
\* the I2C bus object (make_shared), so no pointer is null in this program
AllCO2Regs == [low |-> TRUE, dev |-> TRUE, st |-> TRUE]

CO2Faults == {[dev |-> 4, st |-> 0], [dev |-> 0, st |-> 1]}

CO2Scripts(raws, fails) ==
    {[i \in 1..CO2_MAX_ATTEMPTS |->
        LET status == ScriptOf(k, CO2_MAX_ATTEMPTS, b, [dev |-> 0, st |-> 0])[i]
        IN  [dev |-> status.dev, st |-> status.st, raw |-> Drift(v, i)]] :
        k \in fails, b \in CO2Faults, v \in raws}

TRHScripts(raws, fails) ==
    {[i \in 1..TRH_MAX_ATTEMPTS |->
        [status |-> ScriptOf(k, TRH_MAX_ATTEMPTS, 0, TRH_STATUS_OK)[i],
         rawT |-> Drift(v[1], i), rawH |-> Drift(v[2], i)]] :
        k \in fails, v \in raws}

PressureIOs(raws, buses, ws, ns) ==
    {[bus |-> b, written |-> w, readBytes |-> n, b0 |-> v[1], b1 |-> v[2]] :
        b \in buses, w \in ws, n \in ns, v \in raws}

\* ---------------------------------------------------------- sensorTask
\* for (sensor : sensorList) sensor->readSensor();   (CO2, Temp/RH, pressure)
\* raws, fails, ws, ns are the register contents and transfer outcomes the
\* hardware may produce; wirings and buses tell which register and bus
\* pointers the sensor object was built with. With timed the tick count
\* moves on by the vTaskDelay() calls the reader made (no timer is armed
\* where the timed readers are used); without it the time the reader takes
\* is left to the Elapse steps.
ReadCO2W(raws, fails, wirings, timed) ==
    /\ phase = "run" /\ pc = "co2"
    /\ pc' = "trh"
    /\ \E script \in CO2Scripts(raws, fails), regs \in wirings :
          LET res == CO2_readSensor(regs, script, co2ppm_)
          IN  /\ co2ppm_' = res.value
              /\ readOk' = [readOk EXCEPT !.co2 = res.ok]
              /\ hist' = [hist EXCEPT
                            !.call = [kind |-> "co2", in |-> script,
                                      old |-> co2ppm_, res |-> res],
                            !.firstTry = res.ok /\ res.attempts = 1]
              /\ tick' = IF timed THEN tick + res.waited ELSE tick
    /\ UNCHANGED <<phase, eeprom, co2Setpoint, readv, fanv, valv, tmr,
                   temperature, humidity, pressurePa, uiv, locals, bnd>>

ReadCO2(raws, fails, wirings) == ReadCO2W(raws, fails, wirings, FALSE)

ReadTRHW(raws, fails, wirings, timed) ==
    /\ phase = "run" /\ pc = "trh"
    /\ pc' = "pres"
    /\ \E script \in TRHScripts(raws, fails), hasRegs \in wirings :
          LET res == TRH_readSensor(hasRegs, script, <<temperature, humidity>>)
          IN  /\ temperature' = res.temperature
              /\ humidity' = res.humidity
              /\ readOk' = [readOk EXCEPT !.trh = res.ok]
              /\ hist' = [hist EXCEPT
                            !.call = [kind |-> "trh", in |-> script,
                                      old |-> <<temperature, humidity>>,
                                      res |-> res],
                            !.firstTry = @ /\ res.ok /\ res.attempts = 1]
              /\ tick' = IF timed THEN tick + res.waited ELSE tick
    /\ UNCHANGED <<phase, eeprom, co2Setpoint, readv, fanv, valv, tmr,
                   co2ppm_, pressurePa, uiv, locals, bnd>>

ReadTRH(raws, fails, wirings) == ReadTRHW(raws, fails, wirings, FALSE)

ReadPressure(raws, buses, ws, ns) ==
    /\ phase = "run" /\ pc = "pres"
    /\ pc' = "L90"
    /\ \E io \in PressureIOs(raws, buses, ws, ns) :
          LET res == Pressure_readSensor(io, pressurePa)
          IN  /\ pressurePa' = res.value
              /\ readOk' = [readOk EXCEPT !.pres = res.ok]
              /\ hist' = [hist EXCEPT
                            !.call = [kind |-> "pres", in |-> io,
                                      old |-> pressurePa, res |-> res],
                            !.firstTry = @ /\ res.ok]
    /\ UNCHANGED <<tick, phase, eeprom, co2Setpoint, readv, fanv, valv, tmr,
                   co2ppm_, temperature, humidity, uiv, locals, bnd>>

\* ------------------------------------------- Controller::updateControl
\* One action per statement that reads or writes state shared with the timer
\* service task, the tick counter or the setpoint writers; pc names the
\* source line of controller.cpp the sensorTask is about to execute.
InUpdate ==
    pc \in {"L90", "L103", "L111", "L112", "L113", "L129", "L139", "L143",
            "L144", "L146", "L149", "L153", "L154", "L164", "L165", "L167",
            "L170", "ret"}

\* The timer service task has the highest priority
\* (configTIMER_TASK_PRIORITY = configMAX_PRIORITIES - 1): once the tick
\* reaches the expiry time its callback runs before any task continues.
TimerDue == timerActive /\ tick >= timerExpiry

Runs(l) == phase = "run" /\ pc = l /\ ~TimerDue

\* lines 90-99: copy the sensors' last values
UC_L90 ==
    /\ Runs("L90")
    /\ currentCO2' = co2ppm_
    /\ currentTemp' = temperature
    /\ currentRH' = humidity
    /\ currentPressure' = pressurePa
    /\ hist' = [hist EXCEPT !.ucOpened = FALSE,
                            !.updates = Min(@ + 1, 2),
                            !.entrySafety = safetyVent,
                            !.sp129 = NoTick,
                            !.call = NoCall,
                            !.firstTry = FALSE]
    /\ pc' = "L103"
    /\ UNCHANGED <<tick, phase, eeprom, co2Setpoint, fanv, valv, tmr, sens,
                   uiv, locals, readOk, bnd>>

\* lines 103-109 and 119-125: safety test and the fan command
UC_L103 ==
    /\ Runs("L103")
    /\ IF currentCO2 > F(SAFETY_CO2_PPM)
       THEN /\ fanSpeed' = setFanSpeed(F(FAN_FULL_PERCENT))[1]
            /\ fanReg' = setFanSpeed(F(FAN_FULL_PERCENT))[2]
            /\ currentFanSpeed' = F(FAN_FULL_PERCENT)
            /\ safetyVent' = TRUE
            /\ pc' = "L111"
       ELSE IF ~safetyVent
       THEN /\ fanSpeed' = setFanSpeed(F(0))[1]
            /\ fanReg' = setFanSpeed(F(0))[2]
            /\ currentFanSpeed' = F(0)
            /\ safetyVent' = safetyVent
            /\ pc' = "L129"
       ELSE /\ UNCHANGED fanv
            /\ pc' = "L129"
    /\ UNCHANGED <<tick, phase, eeprom, co2Setpoint, readv, valv, tmr, sens,
                   uiv, locals, readOk, bnd, hist>>

\* Variant of line 111 in which the safety branch returns without looking at
\* the valve: C1 does not survive it.
UC_L111_NoClose ==
    /\ Runs("L111")
    /\ pc' = "ret"
    /\ UNCHANGED <<tick, phase, eeprom, co2Setpoint, readv, fanv, valv, tmr,
                   sens, uiv, locals, readOk, bnd, hist>>

\* line 111: if (valve && valve->isOpen())
UC_L111 ==
    /\ Runs("L111")
    /\ pc' = IF valveOpen THEN "L112" ELSE "ret"
    /\ UNCHANGED <<tick, phase, eeprom, co2Setpoint, readv, fanv, valv, tmr,
                   sens, uiv, locals, readOk, bnd, hist>>

\* valve->closeValve() at line l, continuing at line next
CloseValveAt(l, next, by) ==
    /\ Runs(l)
    /\ valveOpen' = closeValve(valveOpen)
    /\ hist' = IF valveOpen
               THEN [hist EXCEPT !.closedAt = tick, !.closedBy = by,
                                 !.openedAt = NoTick]
               ELSE hist
    /\ pc' = next
    /\ UNCHANGED <<tick, phase, eeprom, co2Setpoint, readv, fanv,
                   lastValveCloseTick, tmr, sens, uiv, locals, readOk, bnd>>

\* Variant that closes without recording the tick: C25 does not survive it.
StampCloseAt_NoStamp(l, next) ==
    /\ Runs(l)
    /\ pc' = next
    /\ UNCHANGED <<tick, phase, eeprom, co2Setpoint, readv, fanv, valv, tmr,
                   sens, uiv, locals, readOk, bnd, hist>>

\* lastValveCloseTick = xTaskGetTickCount() at line l
StampCloseAt(l, next) ==
    /\ Runs(l)
    /\ lastValveCloseTick' = tick
    /\ pc' = next
    /\ UNCHANGED <<tick, phase, eeprom, co2Setpoint, readv, fanv, valveOpen,
                   tmr, sens, uiv, locals, readOk, bnd, hist>>

UC_L112 == CloseValveAt("L112", "L113", "safety")
UC_L113 == StampCloseAt("L113", "ret")

\* Variant of lines 129-135 that leaves the override as soon as the CO2 value
\* is back under the safety threshold: C4 does not survive it.
UC_L129_AtThreshold ==
    /\ Runs("L129")
    /\ IF safetyVent /\ currentCO2 <= F(SAFETY_CO2_PPM)
       THEN /\ fanSpeed' = setFanSpeed(F(0))[1]
            /\ fanReg' = setFanSpeed(F(0))[2]
            /\ currentFanSpeed' = F(0)
            /\ safetyVent' = FALSE
       ELSE UNCHANGED fanv
    /\ hist' = [hist EXCEPT !.sp129 = co2Setpoint]
    /\ pc' = "L139"
    /\ UNCHANGED <<tick, phase, eeprom, co2Setpoint, readv, valv, tmr, sens,
                   uiv, locals, readOk, bnd>>

\* Variant of lines 129-135 that clears the override and leaves the fan
\* running: C27 does not survive it.
UC_L129_KeepFan ==
    /\ Runs("L129")
    /\ IF safetyVent /\ currentCO2 <= co2Setpoint
       THEN /\ safetyVent' = FALSE
            /\ UNCHANGED <<fanSpeed, fanReg, currentFanSpeed>>
       ELSE UNCHANGED fanv
    /\ hist' = [hist EXCEPT !.sp129 = co2Setpoint]
    /\ pc' = "L139"
    /\ UNCHANGED <<tick, phase, eeprom, co2Setpoint, readv, valv, tmr, sens,
                   uiv, locals, readOk, bnd>>

\* lines 129-135: leave the safety override
UC_L129 ==
    /\ Runs("L129")
    /\ IF safetyVent /\ currentCO2 <= co2Setpoint
       THEN /\ fanSpeed' = setFanSpeed(F(0))[1]
            /\ fanReg' = setFanSpeed(F(0))[2]
            /\ currentFanSpeed' = F(0)
            /\ safetyVent' = FALSE
       ELSE UNCHANGED fanv
    /\ hist' = [hist EXCEPT !.sp129 = co2Setpoint]
    /\ pc' = "L139"
    /\ UNCHANGED <<tick, phase, eeprom, co2Setpoint, readv, valv, tmr, sens,
                   uiv, locals, readOk, bnd>>

\* line 139: bool needCO2 = (currentCO2 < co2Setpoint)
needCO2 == currentCO2 < co2Setpoint

UC_L139 ==
    /\ Runs("L139")
    /\ pc' = IF needCO2 THEN "L143" ELSE "L164"
    /\ UNCHANGED <<tick, phase, eeprom, co2Setpoint, readv, fanv, valv, tmr,
                   sens, uiv, locals, readOk, bnd, hist>>

\* line 143: uint32_t now = xTaskGetTickCount()
UC_L143 ==
    /\ Runs("L143")
    /\ now' = tick
    /\ pc' = "L144"
    /\ UNCHANGED <<tick, phase, eeprom, co2Setpoint, readv, fanv, valv, tmr,
                   sens, uiv, elapsed, wake, setter, readOk, bnd, hist>>

\* line 144: uint32_t elapsed = now - lastValveCloseTick
UC_L144 ==
    /\ Runs("L144")
    /\ elapsed' = Sub32(now, lastValveCloseTick)
    /\ pc' = "L146"
    /\ UNCHANGED <<tick, phase, eeprom, co2Setpoint, readv, fanv, valv, tmr,
                   sens, uiv, now, wake, setter, readOk, bnd, hist>>

\* Variant of the cooldown test that needs more than 30000 ms: C35 does not
\* survive it.
CooldownOver_Strict(e) == GreaterEq32(e, pdMS_TO_TICKS(VALVE_COOLDOWN_MS) + 1)

\* line 148: the cooldown test
CooldownOver(e) == GreaterEq32(e, pdMS_TO_TICKS(VALVE_COOLDOWN_MS))

\* lines 146-148: closed and cooled down -> open, else nothing
UC_L146 ==
    /\ Runs("L146")
    /\ pc' = IF ~valveOpen /\ CooldownOver(elapsed) THEN "L149" ELSE "ret"
    /\ UNCHANGED <<tick, phase, eeprom, co2Setpoint, readv, fanv, valv, tmr,
                   sens, uiv, locals, readOk, bnd, hist>>

\* line 149: valve->openValve()
UC_L149 ==
    /\ Runs("L149")
    /\ valveOpen' = openValve(valveOpen)
    /\ hist' = [hist EXCEPT !.openedAt = tick, !.ucOpened = TRUE,
                            !.closedAt = NoTick, !.closedBy = "none",
                            !.wraps = 0]
    /\ pc' = "L153"
    /\ UNCHANGED <<tick, phase, eeprom, co2Setpoint, readv, fanv,
                   lastValveCloseTick, tmr, sens, uiv, locals, readOk, bnd>>

\* xTimerStop(valveTimer, 0) at line l
TimerStopAt(l, next) ==
    /\ Runs(l)
    /\ timerActive' = FALSE
    /\ pc' = next
    /\ UNCHANGED <<tick, phase, eeprom, co2Setpoint, readv, fanv, valv,
                   timerExpiry, sens, uiv, locals, readOk, bnd, hist>>

UC_L153 == TimerStopAt("L153", "L154")

\* line 154: xTimerStart(valveTimer, 0): expires one period after this tick
UC_L154 ==
    /\ Runs("L154")
    /\ timerActive' = TRUE
    /\ timerExpiry' = tick + pdMS_TO_TICKS(VALVE_TIMER_MS)
    /\ hist' = [hist EXCEPT !.armedAt = tick]
    /\ pc' = "ret"
    /\ UNCHANGED <<tick, phase, eeprom, co2Setpoint, readv, fanv, valv, sens,
                   uiv, locals, readOk, bnd>>

\* line 164: if (valve && valve->isOpen())
UC_L164 ==
    /\ Runs("L164")
    /\ pc' = IF valveOpen THEN "L165" ELSE "ret"
    /\ UNCHANGED <<tick, phase, eeprom, co2Setpoint, readv, fanv, valv, tmr,
                   sens, uiv, locals, readOk, bnd, hist>>

UC_L165 == CloseValveAt("L165", "L167", "early")
UC_L167 == StampCloseAt("L167", "L170")
UC_L170 == TimerStopAt("L170", "ret")

\* updateControl() has returned; sensorTask: vTaskDelay(pdMS_TO_TICKS(500))
UC_Return ==
    /\ Runs("ret")
    /\ wake' = tick + pdMS_TO_TICKS(SENSOR_PERIOD_MS)
    /\ now' = 0 /\ elapsed' = <<0, 0>>
    /\ readOk' = AllOk
    /\ hist' = [hist EXCEPT !.ucOpened = FALSE, !.entrySafety = FALSE,
                            !.sp129 = NoTick]
    /\ pc' = "sleep"
    /\ UNCHANGED <<tick, phase, eeprom, co2Setpoint, readv, fanv, valv, tmr,
                   sens, uiv, setter, bnd>>

\* the delay is over: next cycle
Wake ==
    /\ Runs("sleep")
    /\ tick >= wake
    /\ pc' = "co2"
    /\ UNCHANGED <<tick, phase, eeprom, co2Setpoint, readv, fanv, valv, tmr,
                   sens, uiv, locals, readOk, bnd, hist>>

\* ------------------------------------- Controller::valveTimerCallback
\* Variant of the callback without the isOpen() test, which closes and
\* stamps on every expiry: C34 does not survive it.
valveTimerCallback_NoCheck ==
    /\ phase = "run"
    /\ TimerDue
    /\ timerActive' = FALSE
    /\ valveOpen' = closeValve(valveOpen)
    /\ lastValveCloseTick' = tick
    /\ hist' = [hist EXCEPT !.closedAt = tick, !.closedBy = "timer",
                            !.openedAt = NoTick]
    /\ UNCHANGED <<tick, phase, eeprom, co2Setpoint, readv, fanv, timerExpiry,
                   sens, uiv, pc, locals, readOk, bnd>>

\* The one-shot timer expired: close the valve if it is still open.
valveTimerCallback ==
    /\ phase = "run"
    /\ TimerDue
    /\ timerActive' = FALSE
    /\ IF valveOpen
       THEN /\ valveOpen' = closeValve(valveOpen)
            /\ lastValveCloseTick' = tick
            /\ hist' = [hist EXCEPT !.closedAt = tick, !.closedBy = "timer",
                                    !.openedAt = NoTick]
       ELSE UNCHANGED <<valv, hist>>
    /\ UNCHANGED <<tick, phase, eeprom, co2Setpoint, readv, fanv, timerExpiry,
                   sens, uiv, pc, locals, readOk, bnd>>

\* ---------------------------------------------------------------- time
\* A tick interrupt while the sensorTask is inside updateControl() (it is
\* preempted, or blocked in printf).
TickInUpdate ==
    /\ phase = "run" /\ InUpdate /\ ~TimerDue
    /\ jitter < MaxJitter
    /\ tick + 1 <= MaxTick
    /\ tick' = tick + 1
    /\ jitter' = jitter + 1
    /\ UNCHANGED <<phase, eeprom, co2Setpoint, readv, fanv, valv, tmr, sens,
                   uiv, pc, locals, readOk, turns, cmds, boots, hist>>

\* The instants followed while the sensorTask is not inside updateControl():
\* the end of its delay, the timer expiry and the tick before it, the end of
\* the valve cooldown and the tick before it.
AdvanceSteps ==
    LET cool == lastValveCloseTick + pdMS_TO_TICKS(VALVE_COOLDOWN_MS) - tick
    IN  {d \in (IF pc = "sleep" THEN {wake - tick} ELSE {})
               \cup (IF timerActive
                     THEN {timerExpiry - tick, timerExpiry - tick - 1} ELSE {})
               \cup {cool, cool - 1} :
           /\ d > 0
           /\ timerActive => tick + d <= timerExpiry}

\* Time passes while the sensorTask is not inside updateControl()
Elapse(steps, limit) ==
    /\ phase = "run" /\ ~InUpdate /\ ~TimerDue
    /\ \E d \in steps : tick + d <= limit /\ tick' = tick + d
    /\ UNCHANGED <<phase, eeprom, co2Setpoint, readv, fanv, valv, tmr, sens,
                   uiv, pc, locals, readOk, bnd, hist>>

Advance == Elapse(AdvanceSteps, MaxTick)

\* ------------------------------------- Cloud::parseAndPrintSetpoint
\* x is the float strtof() made of the text after "SETPOINT="
RemoteAccepts(x) == ~(x <= F(0) \/ x > F(REMOTE_MAX_PPM))

\* lines 133-139: reject, or Controller::setCO2Setpoint(x)
RemoteCommand(values, ws) ==
    /\ phase = "run" /\ ~TimerDue
    /\ cmds < MaxCmds
    /\ cmds' = cmds + 1
    /\ \E x \in values, w1 \in ws, w2 \in ws :
          IF RemoteAccepts(x)
          THEN /\ co2Setpoint' = SetpointAfterSet(co2Setpoint, x, w1, w2)
               /\ eeprom' = StoreAfterSet(eeprom, x, w1, w2)
               /\ hist' = [hist EXCEPT
                             !.cmd = [x |-> x, before |-> co2Setpoint,
                                      memBefore |-> eeprom,
                                      writes |-> SetpointWrites(x),
                                      seen |-> TRUE],
                             !.uiCommit = NoTick,
                             !.lastSet = SetCall(x, w1, w2)]
          ELSE /\ UNCHANGED <<co2Setpoint, eeprom>>
               /\ hist' = [hist EXCEPT
                             !.cmd = [x |-> x, before |-> co2Setpoint,
                                      memBefore |-> eeprom,
                                      writes |-> <<>>, seen |-> TRUE],
                             !.uiCommit = NoTick]
    /\ UNCHANGED <<tick, phase, readv, fanv, valv, tmr, sens, uiv, pc, locals,
                   readOk, jitter, turns, boots>>

\* ------------------------------------------------------------------ UI
\* rotaryEventTask, PRESS event: UI::onButtonPress()
ButtonPress(ws) ==
    /\ phase = "run" /\ ~TimerDue
    /\ IF ~GreaterEq32(Sub32(tick, lastPressTime), UI_DEBOUNCE_MS)
       THEN /\ UNCHANGED <<eeprom, co2Setpoint, uiv>>
            /\ hist' = [hist EXCEPT !.cmd = NoCmd, !.uiCommit = NoTick]
       ELSE /\ lastPressTime' = tick
            /\ editingSetpoint_' = ~editingSetpoint_
            /\ UNCHANGED <<localCO2Setpoint_, uiWake>>
            /\ IF editingSetpoint_
               THEN /\ \E w1 \in ws, w2 \in ws :
                          /\ co2Setpoint' =
                                SetpointAfterSet(co2Setpoint,
                                                 localCO2Setpoint_, w1, w2)
                          /\ eeprom' = StoreAfterSet(eeprom, localCO2Setpoint_,
                                                     w1, w2)
                          /\ hist' = [hist EXCEPT
                                        !.cmd = NoCmd,
                                        !.uiCommit = localCO2Setpoint_,
                                        !.turned = FALSE,
                                        !.lastSet =
                                          SetCall(localCO2Setpoint_, w1, w2)]
                    /\ savedMessageTimer_' = UI_SAVED_TICKS
               ELSE /\ UNCHANGED <<eeprom, co2Setpoint, savedMessageTimer_>>
                    /\ hist' = [hist EXCEPT !.cmd = NoCmd,
                                            !.uiCommit = NoTick,
                                            !.turned = FALSE]
    /\ UNCHANGED <<tick, phase, readv, fanv, valv, tmr, sens, pc, locals,
                   readOk, bnd>>

\* rotaryEventTask, TURN event: UI::onEncoderTurn(delta), delta = +1 or -1
EncoderTurn ==
    /\ phase = "run" /\ ~TimerDue
    /\ turns < MaxTurns
    /\ turns' = turns + 1
    /\ \E delta \in {0 - 1, 1} :
          localCO2Setpoint_' = IF editingSetpoint_
                               THEN onEncoderTurn(localCO2Setpoint_, delta)
                               ELSE localCO2Setpoint_
    /\ hist' = [hist EXCEPT !.cmd = NoCmd, !.uiCommit = NoTick,
                            !.turned = TRUE]
    /\ UNCHANGED <<tick, phase, eeprom, co2Setpoint, readv, fanv, valv, tmr,
                   sens, editingSetpoint_, savedMessageTimer_, lastPressTime,
                   uiWake, pc, locals, readOk, jitter, cmds, boots>>

\* uiTask: UI::updateUI(); vTaskDelay(pdMS_TO_TICKS(1000))
UpdateUI ==
    /\ phase = "run" /\ ~TimerDue
    /\ tick >= uiWake
    /\ uiWake' = tick + pdMS_TO_TICKS(UI_PERIOD_MS)
    /\ localCO2Setpoint_' = IF ~editingSetpoint_ THEN co2Setpoint
                            ELSE localCO2Setpoint_
    /\ savedMessageTimer_' = IF ~editingSetpoint_ /\ savedMessageTimer_ > 0
                             THEN savedMessageTimer_ - 1
                             ELSE savedMessageTimer_
    /\ hist' = [hist EXCEPT !.cmd = NoCmd, !.uiCommit = NoTick]
    /\ UNCHANGED <<tick, phase, eeprom, co2Setpoint, readv, fanv, valv, tmr,
                   sens, editingSetpoint_, lastPressTime, pc, locals, readOk,
                   bnd>>

\* ------------------------------------------------ control specification
StoreCtl == {1500}
CO2Raws  == {400, 1800, 2100}
TRHRaws  == {<<215, 400>>}
PresRaws == {<<0, 60>>}

Init == InitWith(StoreCtl)

Next ==
    \/ SetupTask({TRUE})
    \/ InitTask({TRUE}, {TRUE})
    \/ ReadCO2(CO2Raws, {0, CO2_MAX_ATTEMPTS}, {AllCO2Regs})
    \/ ReadTRH(TRHRaws, {0}, {TRUE})
    \/ ReadPressure(PresRaws, {TRUE}, {1}, {2})
    \/ UC_L90 \/ UC_L103 \/ UC_L111 \/ UC_L112 \/ UC_L113 \/ UC_L129
    \/ UC_L139 \/ UC_L143 \/ UC_L144 \/ UC_L146 \/ UC_L149 \/ UC_L153
    \/ UC_L154 \/ UC_L164 \/ UC_L165 \/ UC_L167 \/ UC_L170 \/ UC_Return
    \/ Wake
    \/ valveTimerCallback
    \/ TickInUpdate
    \/ Advance

Spec == Init /\ [][Next]_vars

\* ------------------------------------------- setpoint specification
\* Boot, the UI events and the remote commands; the sensorTask is left out.
StoreUI   == {1200, 2500, 65535}
RemoteUI  == {0 - F(5), F(0), F(1200) + 1, F(1500), F(1500) + 1}
UiSteps   == {UI_DEBOUNCE_MS - 1, UI_DEBOUNCE_MS}

InitUI == InitWith(StoreUI)

NextUI ==
    \/ SetupTask(BOOLEAN)
    \/ InitTask(BOOLEAN, {TRUE})
    \/ RemoteCommand(RemoteUI, {TRUE})
    \/ ButtonPress({TRUE})
    \/ EncoderTurn
    \/ UpdateUI
    \/ Elapse(UiSteps, MaxUiTick)

SpecUI == InitUI /\ [][NextUI]_vars

\* --------------------------------------------- sensor specification
\* The first sensorTask cycles after boot, with every failure the three
\* readers distinguish. Up to MaxSensorTick the valve cannot open (the
\* constructor started a cooldown at tick 0), so the statements of
\* updateControl() that need an open valve or an elapsed cooldown, and the
\* timer callback, do not occur.
CO2Wirings == {AllCO2Regs}
TRHRawsS   == {<<215, 400>>, <<230, 455>>}
PresRawsS  == {<<0, 60>>, <<255, 196>>}

NextSensors ==
    \/ SetupTask({TRUE})
    \/ InitTask({TRUE}, {TRUE})
    \/ ReadCO2(CO2Raws, {0, CO2_MAX_ATTEMPTS - 1, CO2_MAX_ATTEMPTS}, CO2Wirings)
    \/ ReadTRH(TRHRawsS, {0, TRH_MAX_ATTEMPTS - 1, TRH_MAX_ATTEMPTS}, {TRUE})
    \/ ReadPressure(PresRawsS, {TRUE}, {0, 1}, {1, 2})
    \/ UC_L90 \/ UC_L103 \/ UC_L111 \/ UC_L129 \/ UC_L139 \/ UC_L143
    \/ UC_L144 \/ UC_L146 \/ UC_L164 \/ UC_Return
    \/ Wake
    \/ Elapse(AdvanceSteps, MaxSensorTick)

SpecSensors == Init /\ [][NextSensors]_vars

\* ---------------------------------------------------------- power cycle
\* Power is lost between two statements and restored: main() starts again
\* with every object rebuilt and the tick count at 0; only the EEPROM keeps
\* its bytes.
PowerCycle ==
    /\ phase # "boot"
    /\ boots < MaxBoots
    /\ boots' = boots + 1
    /\ tick' = 0
    /\ phase' = "boot"
    /\ co2Setpoint' = 0
    /\ currentCO2' = F(0) /\ currentTemp' = F(0) /\ currentRH' = F(0)
    /\ currentPressure' = F(0) /\ currentFanSpeed' = F(0)
    /\ safetyVent' = FALSE
    /\ lastValveCloseTick' = 0
    /\ valveOpen' = FALSE
    /\ fanSpeed' = F(0) /\ fanReg' = 0
    /\ timerActive' = FALSE /\ timerExpiry' = 0
    /\ co2ppm_' = F(0) /\ temperature' = F(0) /\ humidity' = F(0)
    /\ pressurePa' = F(0)
    /\ localCO2Setpoint_' = F(DEFAULT_SETPOINT)
    /\ editingSetpoint_' = FALSE
    /\ savedMessageTimer_' = 0
    /\ lastPressTime' = 0
    /\ uiWake' = 0
    /\ pc' = "off"
    /\ now' = 0 /\ elapsed' = <<0, 0>> /\ wake' = 0
    /\ setter' = NoSetter
    /\ readOk' = AllOk
    /\ jitter' = 0 /\ turns' = 0 /\ cmds' = 0
    /\ hist' = [HistInit EXCEPT
                  !.persisted = IF hist.lastSet.seen THEN hist.lastSet
                                ELSE hist.persisted]
    /\ UNCHANGED eeprom

\* ------------------------------------------- the store specification
\* Boot from a blank (0xFFFF) or a written store, every outcome of the
\* EEPROM byte reads and writes, remote commands, the first sensorTask
\* cycles with a CO2 level below the safety threshold (the valve cannot open
\* before MaxStoreTick), and a power cycle.
StoreS      == {1200, 65535}
RemoteStore == {F(0), F(800), F(1200) + 1}
CO2RawsS    == {900}

InitStore == InitWith(StoreS)

NextStore ==
    \/ SetupTask(BOOLEAN)
    \/ InitTask(BOOLEAN, BOOLEAN)
    \/ RemoteCommand(RemoteStore, BOOLEAN)
    \/ PowerCycle
    \/ ReadCO2(CO2RawsS, {0}, {AllCO2Regs})
    \/ ReadTRH(TRHRaws, {0}, {TRUE})
    \/ ReadPressure(PresRaws, {TRUE}, {1}, {2})
    \/ UC_L90 \/ UC_L103 \/ UC_L129 \/ UC_L139 \/ UC_L143
    \/ UC_L144 \/ UC_L146 \/ UC_L164 \/ UC_Return
    \/ Wake
    \/ Elapse(AdvanceSteps, MaxStoreTick)

SpecStore == InitStore /\ [][NextStore]_vars

\* -------------------------------------- the timed-cycle specification
\* The first sensorTask cycles with the time the readers spend in
\* vTaskDelay(): 10 ms after a faulty CO2 attempt, 3000 ms after an accepted
\* one, 200 ms after a bad Temp/RH status. Up to MaxCycleTick the valve
\* cannot open, so no timer is armed.
NextCycle ==
    \/ SetupTask({TRUE})
    \/ InitTask({TRUE}, {TRUE})
    \/ ReadCO2W(CO2Raws, {0, CO2_MAX_ATTEMPTS}, {AllCO2Regs}, TRUE)
    \/ ReadTRHW(TRHRaws, {0, TRH_MAX_ATTEMPTS}, {TRUE}, TRUE)
    \/ ReadPressure(PresRaws, {TRUE}, {0, 1}, {2})
    \/ UC_L90 \/ UC_L103 \/ UC_L111 \/ UC_L129 \/ UC_L139 \/ UC_L143
    \/ UC_L144 \/ UC_L146 \/ UC_L164 \/ UC_Return
    \/ Wake
    \/ Elapse(AdvanceSteps, MaxCycleTick)

SpecCycle == Init /\ [][NextCycle]_vars

\* ------------------------------- setCO2Setpoint(), statement by statement
\* Task t (rotaryEventTask leaving the edit mode, or cloudTask with an
\* accepted command) calls setCO2Setpoint(x). Both tasks have priority
\* tskIDLE_PRIORITY + 1 and the kernel slices time between them; nothing
\* serialises the two calls.
Set_Call(t, values) ==
    /\ phase = "run" /\ setter[t].at = "idle"
    /\ \E x \in values : setter' = [setter EXCEPT ![t] = [at |-> "L190", x |-> x]]
    /\ UNCHANGED <<tick, phase, eeprom, co2Setpoint, readv, fanv, valv, tmr,
                   sens, uiv, pc, now, elapsed, wake, readOk, bnd, hist>>

\* controller.cpp line 190: co2Setpoint = setpoint
Set_L190(t) ==
    /\ phase = "run" /\ setter[t].at = "L190"
    /\ co2Setpoint' = setter[t].x
    /\ setter' = [setter EXCEPT ![t].at = "hi"]
    /\ UNCHANGED <<tick, phase, eeprom, readv, fanv, valv, tmr, sens, uiv, pc,
                   now, elapsed, wake, readOk, bnd, hist>>

\* storeCO2Setpoint(): writeByte(0x0000, co2ppm >> 8), then
\* writeByte(0x0001, co2ppm & 0xFF); ws holds the outcomes of the I2C write
Set_WriteByte(t, ws) ==
    /\ phase = "run" /\ setter[t].at \in {"hi", "lo"}
    /\ \E w \in ws :
          LET v == ToUint16(setter[t].x)
          IN  eeprom' = IF setter[t].at = "hi"
                        THEN storeCO2Setpoint(eeprom, v, w, FALSE)
                        ELSE storeCO2Setpoint(eeprom, v, FALSE, w)
    /\ setter' = [setter EXCEPT ![t].at = IF @ = "hi" THEN "lo" ELSE "done"]
    /\ UNCHANGED <<tick, phase, co2Setpoint, readv, fanv, valv, tmr, sens, uiv,
                   pc, now, elapsed, wake, readOk, bnd, hist>>

\* ------------------------------------------- the commit specification
\* One UI commit and one remote command, each a setCO2Setpoint() call whose
\* statements interleave with the other's; every byte write succeeds.
UiCommits     == {F(1000), F(1290)}
RemoteCommits == {F(300), F(1200) + 1}

NextCommit ==
    \/ SetupTask({TRUE})
    \/ InitTask({TRUE}, {TRUE})
    \/ Set_Call("ui", UiCommits)
    \/ Set_Call("cloud", RemoteCommits)
    \/ Set_L190("ui") \/ Set_L190("cloud")
    \/ Set_WriteByte("ui", {TRUE}) \/ Set_WriteByte("cloud", {TRUE})

SpecCommit == Init /\ [][NextCommit]_vars

\* --------------------------------------------- the race specification
\* The control loop with remote commands arriving while the sensorTask is
\* inside updateControl(): cloudTask has the priority of sensorTask and the
\* kernel slices time between them, so setCO2Setpoint() can run between any
\* two statements of the update.
CO2RawsR    == {1450, 2100}
RemoteRace  == {F(1400), F(1500)}

RemoteDuringUpdate(values) == InUpdate /\ RemoteCommand(values, {TRUE})

NextRace ==
    \/ SetupTask({TRUE})
    \/ InitTask({TRUE}, {TRUE})
    \/ ReadCO2(CO2RawsR, {0}, {AllCO2Regs})
    \/ ReadTRH(TRHRaws, {0}, {TRUE})
    \/ ReadPressure(PresRaws, {TRUE}, {1}, {2})
    \/ UC_L90 \/ UC_L103 \/ UC_L111 \/ UC_L112 \/ UC_L113 \/ UC_L129
    \/ UC_L139 \/ UC_L143 \/ UC_L144 \/ UC_L146 \/ UC_L149 \/ UC_L153
    \/ UC_L154 \/ UC_L164 \/ UC_L165 \/ UC_L167 \/ UC_L170 \/ UC_Return
    \/ Wake
    \/ valveTimerCallback
    \/ RemoteDuringUpdate(RemoteRace)
    \/ Advance

SpecRace == Init /\ [][NextRace]_vars

\* ------------------------------------------ the decode specification
\* The first sensorTask cycles with the pressure sensor answering every pair
\* of the bytes below, which include both ends of the signed range.
EdgeBytes == {0, 1, 127, 128, 255}
PresRawsD == {<<b0, b1>> : b0 \in EdgeBytes, b1 \in EdgeBytes}

NextDecode ==
    \/ SetupTask({TRUE})
    \/ InitTask({TRUE}, {TRUE})
    \/ ReadCO2(CO2RawsS, {0}, {AllCO2Regs})
    \/ ReadTRH(TRHRaws, {0}, {TRUE})
    \/ ReadPressure(PresRawsD, {TRUE}, {1}, {2})
    \/ UC_L90 \/ UC_L103 \/ UC_L129 \/ UC_L139 \/ UC_L143 \/ UC_L144
    \/ UC_L146 \/ UC_Return
    \/ Wake
    \/ Elapse(AdvanceSteps, MaxSensorTick)

SpecDecode == Init /\ [][NextDecode]_vars

\* ---------------------------------------- the injection specification
\* The CO2 level stays below the setpoint and the safety threshold: every
\* updateControl() call wants to inject. The kernel keeps scheduling the
\* sensorTask and the timer service task and the tick keeps advancing, up
\* to MaxLiveTick.
CO2RawsL == {400}

NextLive ==
    \/ SetupTask({TRUE})
    \/ InitTask({TRUE}, {TRUE})
    \/ ReadCO2(CO2RawsL, {0}, {AllCO2Regs})
    \/ ReadTRH(TRHRaws, {0}, {TRUE})
    \/ ReadPressure(PresRaws, {TRUE}, {1}, {2})
    \/ UC_L90 \/ UC_L103 \/ UC_L129 \/ UC_L139 \/ UC_L143 \/ UC_L144
    \/ UC_L146 \/ UC_L149 \/ UC_L153 \/ UC_L154 \/ UC_Return
    \/ Wake
    \/ valveTimerCallback
    \/ TickInUpdate
    \/ Elapse(AdvanceSteps, MaxLiveTick)

\* every step of NextLive moves the clock, a task or the timer
sched == <<tick, phase, pc, timerActive>>

SpecLive == Init /\ [][NextLive]_vars /\ WF_sched(NextLive)

\* ---------------------------------------- the wraparound specification
\* The 32-bit tick counter goes once around while the valve stays closed:
\* 2^32 + k ticks (49.7 days at 1000 Hz) pass in which the CO2 level stays at
\* or above the setpoint, so that the updateControl() calls made in between
\* change nothing, and the sensorTask is due again at the end. Afterwards
\* xTaskGetTickCount() returns tick + k. The tick values the program looks
\* at in these runs stay below 2^31. The constructor recorded the last close
\* at boot; up to MaxWrapTick the counter never shows 30000 ticks more than
\* that, so the statements that open the valve are not reached.
WrapOffsets == {0 - 1000, 0}

CounterPeriod(offsets) ==
    /\ phase = "run" /\ pc = "sleep"
    /\ ~valveOpen /\ ~timerActive
    /\ ~needCO2
    /\ hist.wraps < MaxWraps
    /\ \E k \in offsets :
          /\ tick + k >= 0 /\ tick + k <= MaxWrapTick
          /\ tick' = tick + k
    /\ wake' = tick'
    /\ hist' = [hist EXCEPT !.wraps = @ + 1]
    /\ UNCHANGED <<phase, eeprom, co2Setpoint, readv, fanv, valv, tmr, sens,
                   uiv, pc, now, elapsed, setter, readOk, bnd>>

CO2RawsW == {400, 1800}

NextWrap ==
    \/ SetupTask({TRUE})
    \/ InitTask({TRUE}, {TRUE})
    \/ ReadCO2(CO2RawsW, {0}, {AllCO2Regs})
    \/ ReadTRH(TRHRaws, {0}, {TRUE})
    \/ ReadPressure(PresRaws, {TRUE}, {1}, {2})
    \/ UC_L90 \/ UC_L103 \/ UC_L129 \/ UC_L139 \/ UC_L143 \/ UC_L144
    \/ UC_L146 \/ UC_L164 \/ UC_Return
    \/ Wake
    \/ CounterPeriod(WrapOffsets)
    \/ Elapse(AdvanceSteps, MaxWrapTick)

SpecWrap == Init /\ [][NextWrap]_vars

\* ------------------------------------------- the driver specification
\* The two actuator drivers once setupTask has built them, under arbitrary
\* call sequences: setFanSpeed(p) for requests below, inside and above
\* [0, 100], and up to MaxDriverCalls openValve()/closeValve() calls.
FanRequests ==
    {0 - F(20), 0 - 1, F(0), 1, F(33) + 1, F(FAN_BOOT_PERCENT),
     F(FAN_FULL_PERCENT) - 1, F(FAN_FULL_PERCENT), F(FAN_FULL_PERCENT) + 1,
     F(250), F(7000)}

FanCall(requests) ==
    /\ phase = "init"
    /\ \E p \in requests :
          /\ fanSpeed' = setFanSpeed(p)[1]
          /\ fanReg' = setFanSpeed(p)[2]
          /\ hist' = [hist EXCEPT !.fanReq = p]
    /\ UNCHANGED <<tick, phase, eeprom, co2Setpoint, readv, currentFanSpeed,
                   safetyVent, valv, tmr, sens, uiv, pc, locals, readOk, bnd>>

ValveCall(name) ==
    /\ phase = "init"
    /\ Len(hist.valveCalls) < MaxDriverCalls
    /\ valveOpen' = IF name = "open" THEN openValve(valveOpen)
                                     ELSE closeValve(valveOpen)
    /\ hist' = [hist EXCEPT !.valveCalls = Append(@, name)]
    /\ UNCHANGED <<tick, phase, eeprom, co2Setpoint, readv, fanv,
                   lastValveCloseTick, tmr, sens, uiv, pc, locals, readOk,
                   bnd>>

NextDrivers ==
    \/ SetupTask({TRUE})
    \/ FanCall(FanRequests)
    \/ ValveCall("open")
    \/ ValveCall("close")

SpecDrivers == Init /\ [][NextDrivers]_vars

\* =============================================================== claims
AtReturn == phase = "run" /\ pc = "ret"

FanFull ==
    /\ currentFanSpeed = F(FAN_FULL_PERCENT)
    /\ fanSpeed = F(FAN_FULL_PERCENT)
    /\ fanReg = FAN_RAW_FULL

FanOff == currentFanSpeed = F(0) /\ fanSpeed = F(0) /\ fanReg = 0

\* C1 (safety precedence): when an updateControl() call that pulled a CO2
\* value above 2000 returns, the fan is commanded to 100, the override flag
\* is set, the valve is closed and the call has not opened the valve.
C1_SafetyPrecedence ==
    (AtReturn /\ currentCO2 > F(SAFETY_CO2_PPM)) =>
        FanFull /\ safetyVent /\ ~valveOpen /\ ~hist.ucOpened

\* the safety branch has closed an open valve and the call is returning
C1_Witness ==
    /\ AtReturn /\ currentCO2 > F(SAFETY_CO2_PPM)
    /\ hist.closedBy = "safety" /\ hist.closedAt = lastValveCloseTick
    /\ ~valveOpen /\ safetyVent

\* the step that opens the valve
ValveOpens == ~valveOpen /\ valveOpen'

\* C2 (valve cooldown): after the valve went from open to closed at tick T,
\* no updateControl() call opens it at a tick T' with T' - T < 30000.
C2_Cooldown ==
    [][(ValveOpens /\ hist.closedAt # NoTick) =>
         tick - hist.closedAt >= pdMS_TO_TICKS(VALVE_COOLDOWN_MS)]_vars

\* C3 (valve max-open): a valve opened by updateControl() at tick T is
\* closed at or before tick T + 2000.
C3_MaxOpen ==
    (valveOpen /\ hist.openedAt # NoTick) =>
        tick <= hist.openedAt + pdMS_TO_TICKS(VALVE_TIMER_MS)

\* C4 (safety hysteresis): an updateControl() call entered with the override
\* active leaves fan and override as they are when it sees a CO2 value above
\* the setpoint, and commands the fan to 0 and clears the override when it
\* sees a CO2 value at or under the setpoint; the override is cleared by no
\* other step.
C4_AtReturn ==
    (AtReturn /\ hist.entrySafety) =>
        IF currentCO2 > F(SAFETY_CO2_PPM) \/ currentCO2 > hist.sp129
        THEN safetyVent /\ FanFull
        ELSE ~safetyVent /\ FanOff

C4_ClearedOnlyBy ==
    (safetyVent /\ ~safetyVent') =>
        (pc = "L129" /\ currentCO2 <= co2Setpoint)

C4_Hysteresis == [](C4_AtReturn) /\ [][C4_ClearedOnlyBy]_vars

\* an update entered with the override active has seen a CO2 value between
\* the setpoint and the safety threshold
C4_Witness ==
    /\ AtReturn /\ hist.entrySafety /\ hist.sp129 # NoTick
    /\ currentCO2 > hist.sp129 /\ currentCO2 <= F(SAFETY_CO2_PPM)
    /\ safetyVent

\* C5 (setpoint range): from boot onward the controller's setpoint lies in
\* [0, 1500], whatever 16-bit value the store holds.
C5_SetpointRange ==
    phase # "boot" => (F(0) <= co2Setpoint /\ co2Setpoint <= F(REMOTE_MAX_PPM))

\* C6 (first-open bypass): the first updateControl() call after construction
\* that sees a CO2 value under the setpoint and not above 2000 opens the
\* valve although fewer than 30000 ms have passed since construction.
C6_FirstOpen ==
    (/\ AtReturn /\ hist.updates = 1
     /\ currentCO2 < co2Setpoint /\ currentCO2 <= F(SAFETY_CO2_PPM)
     /\ tick < pdMS_TO_TICKS(VALVE_COOLDOWN_MS)) =>
        hist.ucOpened

C8_CommitRange ==
    hist.uiCommit # NoTick =>
        (F(0) <= hist.uiCommit /\ hist.uiCommit <= F(UI_MAX_PPM))

\* C9 (cooldown under preemption): the valve is not opened again less than
\* 30000 ms after valveTimerCallback closed it, wherever in updateControl()
\* the callback ran.
C9_CooldownAfterTimer ==
    [][(ValveOpens /\ hist.closedBy = "timer") =>
         tick - hist.closedAt >= pdMS_TO_TICKS(VALVE_COOLDOWN_MS)]_vars

\* C10 (stale on failure): no readSensor() call touches the ControlState,
\* and the updateControl() call that follows a failed readSensor() leaves the
\* ControlState field of that sensor as it was.
C10_Step ==
    /\ pc \in {"co2", "trh", "pres"} => readv' = readv
    /\ (InUpdate /\ ~readOk.co2) => currentCO2' = currentCO2
    /\ (InUpdate /\ ~readOk.trh) =>
          (currentTemp' = currentTemp /\ currentRH' = currentRH)
    /\ (InUpdate /\ ~readOk.pres) => currentPressure' = currentPressure

C10_StaleOnFailure == [][C10_Step]_vars

\* all three readers failed in a cycle that follows a successful one, and
\* updateControl() has made its copies
C10_Witness ==
    /\ AtReturn /\ ~readOk.co2 /\ ~readOk.trh /\ ~readOk.pres
    /\ currentCO2 > F(0) /\ currentTemp > F(0) /\ currentRH > F(0)
    /\ currentPressure # F(0)

\* ------------------------------------------------------------ the store
\* the constructor has just loaded the setpoint of a restarted system, the
\* last setCO2Setpoint() before the power cycle wrote both bytes and both
\* bytes were read back
Restarted ==
    /\ phase = "init" /\ boots > 0
    /\ hist.persisted.seen /\ hist.persisted.ok
    /\ hist.load.seen /\ hist.load.ok

\* C11 (setpoint survives a power cycle): after setCO2Setpoint(x) with
\* 0 < x <= 1500 and both writes succeeding, a restart whose two reads
\* succeed builds a controller whose setpoint is x.
C11_SurvivesPowerCycle ==
    (Restarted /\ hist.persisted.x > F(0)
               /\ hist.persisted.x <= F(REMOTE_MAX_PPM)) =>
        co2Setpoint = hist.persisted.x

\* C12 (store round trip): storeCO2Setpoint(v) with both byte writes
\* succeeding followed by loadCO2Setpoint() with both byte reads succeeding
\* returns v, and the store holds v's high byte at offset 0x0000 and its low
\* byte at offset 0x0001.
C12_RoundTrip ==
    Restarted =>
        /\ hist.load.value = hist.persisted.v
        /\ hist.load.mem[1] = hist.persisted.v \div 256
        /\ hist.load.mem[2] = hist.persisted.v % 256

\* 800 = 0x0320 was stored by a remote command and read back after the
\* power cycle
C12_Witness ==
    /\ Restarted
    /\ hist.persisted.x = F(800)
    /\ hist.load.mem = <<3, 32>>
    /\ hist.load.value = 800

\* C13 (load fallback): loadCO2Setpoint() returns 1000 on a store that was
\* never written (every byte 0xFF) and whenever one of the two byte reads
\* fails.
C13_LoadFallback ==
    (hist.load.seen /\ (hist.load.mem = <<255, 255>> \/ ~hist.load.ok)) =>
        hist.load.value = EEPROM_FALLBACK

\* C14 (initial setpoint): once the controller is constructed, co2Setpoint
\* is the value the store holds when the store can be read and was written,
\* and 1500 when the store cannot be read or is empty (every byte 0xFF).
C14_InitialSetpoint ==
    (phase = "init" /\ hist.load.seen) =>
        IF hist.load.ok /\ hist.load.mem # <<255, 255>>
        THEN co2Setpoint = F(hist.load.mem[1] * 256 + hist.load.mem[2])
        ELSE co2Setpoint = F(DEFAULT_SETPOINT)

\* the last setCO2Setpoint(x) of this session failed to write a byte
SetFailed == phase = "run" /\ hist.lastSet.seen /\ ~hist.lastSet.ok

\* the statements of updateControl() that read the setpoint (lines 129 and
\* 139) read x
C15_Step ==
    SetFailed =>
        /\ (pc = "L129" /\ pc' = "L139") => hist'.sp129 = hist.lastSet.x
        /\ (pc = "L139" /\ pc' \in {"L143", "L164"}) =>
              (pc' = "L143" <=> currentCO2 < hist.lastSet.x)

\* C15 (persistence failure is not fatal): when a byte write of the store
\* issued by setCO2Setpoint(x) fails, the setpoint is x afterwards and the
\* updateControl() calls that follow use x.
C15_NotFatal ==
    /\ [](SetFailed => co2Setpoint = hist.lastSet.x)
    /\ [][C15_Step]_vars

\* a remote command for 800 ppm whose write failed left the store as it
\* was, and updateControl() compared the CO2 level with 800
C15_Witness ==
    /\ SetFailed /\ pc = "L139"
    /\ hist.cmd.seen /\ hist.cmd.x = F(800) /\ hist.lastSet.x = F(800)
    /\ eeprom = hist.cmd.memBefore /\ eeprom # BytesOf(800)
    /\ hist.sp129 = F(800)

\* ------------------------------------------------------------------ fan
\* C16 (binary fan): in every state from boot onward the speed last
\* commanded to the fan driver is 0 % or 100 %.
C16_BinaryFan == fanSpeed \in {F(0), F(FAN_FULL_PERCENT)}

\* -------------------------------------------------------------- readers
\* the reader of the given sensor has just returned
Returned(kind) == phase = "run" /\ hist.call.kind = kind

\* attempt i of the CO2 reader read both status registers as 0
CO2Clean(i) == hist.call.in[i].dev = 0 /\ hist.call.in[i].st = 0

\* C17 (CO2 reader acceptance): CO2Sensor::readSensor() makes at most 10
\* attempts; it returns true iff an attempt it made read device status 0
\* and CO2 status 0, it stops at the first such attempt and the stored value
\* is the raw value of that attempt; otherwise it returns false after
\* exactly 10 attempts, the stored value unchanged.
C17_CO2Acceptance ==
    Returned("co2") =>
        LET res == hist.call.res
        IN  /\ res.attempts \in 1..CO2_MAX_ATTEMPTS
            /\ res.ok <=> \E i \in 1..res.attempts : CO2Clean(i)
            /\ res.ok =>
                  /\ CO2Clean(res.attempts)
                  /\ \A i \in 1..(res.attempts - 1) : ~CO2Clean(i)
                  /\ co2ppm_ = F(hist.call.in[res.attempts].raw)
            /\ ~res.ok =>
                  /\ res.attempts = CO2_MAX_ATTEMPTS
                  /\ co2ppm_ = hist.call.old

\* nine faulty attempts, the tenth accepted with its own raw value
C17_Witness ==
    /\ Returned("co2") /\ hist.call.res.ok
    /\ hist.call.res.attempts = CO2_MAX_ATTEMPTS
    /\ hist.call.in[1].raw # hist.call.in[CO2_MAX_ATTEMPTS].raw
    /\ co2ppm_ = F(hist.call.in[CO2_MAX_ATTEMPTS].raw)

\* C18 (CO2 buffer drain): every attempt of CO2Sensor::readSensor() reads
\* the raw measurement register, whatever the status registers said: the
\* raw-register reads are as many as the attempts started.
C18_BufferDrain ==
    Returned("co2") =>
        /\ hist.call.res.attempts >= 1
        /\ hist.call.res.rawReads = hist.call.res.attempts

\* ten attempts, every one with a fault flagged, ten raw reads
C18_Witness ==
    /\ Returned("co2") /\ ~hist.call.res.ok
    /\ \A i \in 1..CO2_MAX_ATTEMPTS : ~CO2Clean(i)
    /\ hist.call.res.rawReads = CO2_MAX_ATTEMPTS

\* v is the float quotient of raw and d, in the model's fixed point
IsQuotient(v, raw, d) == v * d <= F(raw) /\ F(raw) < (v + 1) * d

\* C19 (Temp/RH reader): TempRHSensor::readSensor() makes at most 5
\* attempts, each reading the status, raw temperature and raw humidity
\* registers; it returns true iff an attempt it made read status 1, and then
\* temperature and humidity are rawTemp/10 and rawHumidity/10 of that
\* attempt; on failure both stored values are unchanged.
C19_TempRH ==
    Returned("trh") =>
        LET res == hist.call.res
            script == hist.call.in
        IN  /\ res.attempts \in 1..TRH_MAX_ATTEMPTS
            /\ res.regReads = [status |-> res.attempts, rawT |-> res.attempts,
                               rawH |-> res.attempts]
            /\ res.ok <=> \E i \in 1..res.attempts :
                              script[i].status = TRH_STATUS_OK
            /\ res.ok =>
                  /\ script[res.attempts].status = TRH_STATUS_OK
                  /\ IsQuotient(temperature, script[res.attempts].rawT,
                                TRH_DIVISOR)
                  /\ IsQuotient(humidity, script[res.attempts].rawH, TRH_DIVISOR)
            /\ ~res.ok => <<temperature, humidity>> = hist.call.old

\* four attempts with a bad status, the fifth accepted: both values are
\* new and come from the fifth attempt
C19_Witness ==
    /\ Returned("trh") /\ hist.call.res.ok
    /\ hist.call.res.attempts = TRH_MAX_ATTEMPTS
    /\ temperature # hist.call.old[1] /\ humidity # hist.call.old[2]
    /\ hist.call.in[1].rawT = 230
    /\ IsQuotient(temperature, Drift(230, TRH_MAX_ATTEMPTS), TRH_DIVISOR)
    /\ IsQuotient(humidity, Drift(455, TRH_MAX_ATTEMPTS), TRH_DIVISOR)

\* C20 (single-shot pressure reader): PressureSensor::readSensor() issues
\* exactly one trigger write and at most one 2-byte read, without retry; it
\* returns true iff the write reported 1 byte and the read reported 2 bytes,
\* it does not read when the write failed, and the stored pressure is
\* unchanged whenever it returns false.
C20_PressureSingleShot ==
    Returned("pres") =>
        LET res == hist.call.res
            io  == hist.call.in
        IN  /\ res.writes = 1
            /\ res.reads <= 1
            /\ res.ok <=> (io.written = 1 /\ io.readBytes = 2)
            /\ io.written # 1 => res.reads = 0
            /\ ~res.ok => pressurePa = hist.call.old

\* the write went through, the read came back short: one write, one read,
\* failure, the pressure of the previous cycle kept
C20_Witness ==
    /\ Returned("pres") /\ ~hist.call.res.ok
    /\ hist.call.in.written = 1 /\ hist.call.in.readBytes = 1
    /\ hist.call.res.writes = 1 /\ hist.call.res.reads = 1
    /\ hist.call.old # F(0) /\ pressurePa = hist.call.old

\* -------------------------------------------------------------- drivers
\* C21 (fan driver clamp): after setFanSpeed(p), getCurrentSpeed() is p
\* clamped to [0, 100] and the raw value written to the fan register is 10
\* times that clamped percent (as the 16-bit integer the register holds),
\* hence within [0, 1000].
C21_FanClamp ==
    hist.fanReq # NoTick =>
        LET p == hist.fanReq
        IN  /\ fanSpeed = (IF p < F(0) THEN F(0)
                           ELSE IF p > F(FAN_FULL_PERCENT)
                                THEN F(FAN_FULL_PERCENT) ELSE p)
            /\ fanReg * Res <= 10 * fanSpeed
            /\ 10 * fanSpeed < (fanReg + 1) * Res
            /\ fanReg \in 0..FAN_RAW_FULL

\* a request of 250 % left the driver at 100 % with 1000 in the register
C21_Witness ==
    /\ hist.fanReq = F(250)
    /\ fanSpeed = F(FAN_FULL_PERCENT) /\ fanReg = FAN_RAW_FULL

\* a call that repeats the call before it
RepeatsLast(name) ==
    /\ hist.valveCalls # <<>>
    /\ hist.valveCalls[Len(hist.valveCalls)] = name
    /\ hist'.valveCalls = Append(hist.valveCalls, name)

\* C22 (valve driver): the valve is closed after construction; after any
\* sequence of openValve()/closeValve() calls isOpen() is true iff the last
\* call was openValve(); a call that repeats the one before it leaves the
\* state as it was.
C22_ValveDriver ==
    /\ [](phase = "init" =>
            IF hist.valveCalls = <<>>
            THEN ~valveOpen
            ELSE valveOpen <=>
                   hist.valveCalls[Len(hist.valveCalls)] = "open")
    /\ [][(RepeatsLast("open") \/ RepeatsLast("close")) =>
            valveOpen' = valveOpen]_vars

\* close, open, open: the valve is open after the repeated call
C22_Witness ==
    /\ phase = "init"
    /\ hist.valveCalls = <<"close", "open", "open">>
    /\ valveOpen

\* ---------------------------------------------------------- cycle time
\* updateControl() is about to be called again after a cycle whose three
\* reads succeeded on their first attempt
FirstTryCycle ==
    /\ phase = "run" /\ pc = "L90"
    /\ hist.updates >= 1 /\ hist.firstTry

\* the tick at which the previous updateControl() call returned (the
\* sensorTask then set wake to 500 ms later)
PreviousReturn == wake - pdMS_TO_TICKS(SENSOR_PERIOD_MS)

\* C23 (the CO2 settling delay is not a cooldown on the control loop): in
\* cycles where every read succeeds on its first attempt, updateControl()
\* is invoked no more than 2000 ms after its previous invocation (a
\* fortiori after the previous invocation returned).
C23_CyclePeriod ==
    FirstTryCycle => tick - PreviousReturn <= pdMS_TO_TICKS(2000)

\* ------------------------------------------------------- valve opening
\* C24 (the valve opens only through the setpoint-tracking branch): the
\* valve goes from closed to open only at line 149 of an updateControl()
\* call, with currentCO2 <= 2000, currentCO2 < co2Setpoint and at least
\* 30000 ms since lastValveCloseTick.
C24_OpensOnlyTracking ==
    [][ValveOpens =>
         /\ pc = "L149" /\ pc' = "L153"
         /\ currentCO2 <= F(SAFETY_CO2_PPM)
         /\ currentCO2 < co2Setpoint
         /\ tick - lastValveCloseTick >= pdMS_TO_TICKS(VALVE_COOLDOWN_MS)]_vars

\* ------------------------------------------------------- close stamps
\* the valve is closed after having been open, and no updateControl() call
\* is between its closeValve() and the assignment that follows it
ClosedAndStamped ==
    /\ phase = "run" /\ ~valveOpen /\ hist.closedAt # NoTick
    /\ pc \notin {"L113", "L167"}

C26_OpenImpliesArmed ==
    (phase = "run" /\ valveOpen /\ pc \notin {"L153", "L154"}) =>
        /\ timerActive
        /\ timerExpiry <= hist.openedAt + pdMS_TO_TICKS(VALVE_TIMER_MS)

\* ------------------------------------------------- override and fan
\* the override flag changes only in an update that sees the matching CO2
\* value
C27_Step ==
    /\ (~safetyVent /\ safetyVent') =>
          (pc = "L103" /\ currentCO2 > F(SAFETY_CO2_PPM))
    /\ (safetyVent /\ ~safetyVent') =>
          (pc = "L129" /\ currentCO2 <= co2Setpoint)

\* C27 (override and fan agree): when an updateControl() call returns, the
\* override flag is set iff the commanded fan speed is 100 and clear iff it
\* is 0; the flag is set only by an update that sees currentCO2 > 2000 and
\* cleared only by one that sees currentCO2 <= co2Setpoint.
C27_OverrideFanAgree ==
    /\ [](AtReturn => /\ safetyVent <=> FanFull
                      /\ ~safetyVent <=> FanOff)
    /\ [][C27_Step]_vars

\* an update entered with the override set has cleared it and stopped the
\* fan
C27_Witness ==
    /\ AtReturn /\ hist.entrySafety
    /\ ~safetyVent /\ FanOff
    /\ currentCO2 <= co2Setpoint

\* ------------------------------------------ concurrent setpoint change
\* C28 (no injection during safety venting under concurrent setpoint
\* change): whatever the interleaving of setCO2Setpoint() with the
\* statements of updateControl(), when the call returns the valve is not
\* open while the override is active and the fan at 100 %.
C28_NoInjectionWhileVenting ==
    AtReturn => ~(valveOpen /\ safetyVent /\ FanFull)

\* ---------------------------------------------------- concurrent commits
\* the UI commit and the remote command have both returned
BothReturned == setter["ui"].at = "done" /\ setter["cloud"].at = "done"

\* C29 (persisted value matches memory after concurrent commits): when a UI
\* commit and a remote command call setCO2Setpoint() concurrently and every
\* store write succeeds, then once both calls have returned the 16-bit
\* value in the store is the integer part of co2Setpoint.
C29_StoreMatchesMemory ==
    BothReturned => eeprom = BytesOf(ToUint16(co2Setpoint))

\* ------------------------------------------------------- write failure
\* a remote command has just called setCO2Setpoint(x) and storeCO2Setpoint()
\* returned false
StoreReturnedFalse ==
    /\ phase = "run" /\ hist.cmd.seen /\ hist.cmd.writes # <<>>
    /\ hist.lastSet.seen /\ hist.lastSet.x = hist.cmd.x
    /\ ~hist.lastSet.ok

\* C30 (no torn record on write failure): storeCO2Setpoint(v) returns true
\* iff both byte writes succeeded, and when it returns false a following
\* loadCO2Setpoint() whose reads succeed returns the value persisted before
\* the call or v, never a value made of one new and one old byte.
C30_NoTornRecord ==
    StoreReturnedFalse =>
        loadCO2Setpoint(eeprom, TRUE, TRUE) \in
            {loadCO2Setpoint(hist.cmd.memBefore, TRUE, TRUE), hist.lastSet.v}

\* ------------------------------------------------- boot-time read failure
\* initTask has just finished and its loadCO2Setpoint() had a failed read
InitLoadFailed ==
    /\ phase = "init" /\ phase' = "run"
    /\ hist'.initLoad.seen /\ ~hist'.initLoad.ok

\* the startup sequence leaves the store as it found it
C31_Step == InitLoadFailed => eeprom' = eeprom

\* C31 (a failed boot-time read does not destroy the persisted setpoint):
\* when a store read fails during startup, so that loadCO2Setpoint() returns
\* the fallback 1000, controller construction followed by initTask does not
\* write to the store and a later successful load returns the previously
\* persisted setpoint.
C31_BootReadKeepsStore == [][C31_Step]_vars

\* --------------------------------------------------------- UI edit mode
\* a TURN event was handled in this step
TurnStep == turns' = turns + 1
\* a PRESS event was handled in this step and passed the debounce test
AcceptedPress == phase = "run" /\ phase' = "run" /\ lastPressTime' # lastPressTime

\* no setCO2Setpoint() call in this step
NoSetCall ==
    /\ co2Setpoint' = co2Setpoint /\ eeprom' = eeprom
    /\ hist'.lastSet = hist.lastSet /\ hist'.uiCommit = NoTick

C32_Step ==
    /\ TurnStep =>
          /\ editingSetpoint_' = editingSetpoint_
          /\ NoSetCall
          /\ IF editingSetpoint_
             THEN localCO2Setpoint_' \in
                     {clamp(localCO2Setpoint_ + F(UI_STEP_PPM), F(0), F(UI_MAX_PPM)),
                      clamp(localCO2Setpoint_ - F(UI_STEP_PPM), F(0), F(UI_MAX_PPM))}
             ELSE localCO2Setpoint_' = localCO2Setpoint_
    /\ AcceptedPress =>
          /\ editingSetpoint_' = ~editingSetpoint_
          /\ localCO2Setpoint_' = localCO2Setpoint_
          /\ IF editingSetpoint_
             THEN /\ hist'.uiCommit = localCO2Setpoint_
                  /\ hist'.lastSet.seen /\ hist'.lastSet.x = localCO2Setpoint_
                  /\ co2Setpoint' = localCO2Setpoint_
             ELSE NoSetCall
    /\ editingSetpoint_' # editingSetpoint_ => AcceptedPress

\* C32 (UI edit-mode state machine): an encoder turn moves the pending local
\* setpoint by +10 or -10 and then clamps it, only while edit mode is on, and
\* does nothing otherwise; an accepted button press toggles edit mode; the UI
\* calls setCO2Setpoint() once per accepted press that leaves edit mode, with
\* the pending value, and never on a turn or on a press that enters edit mode.
C32_EditMode == [][C32_Step]_vars

\* a turn in edit mode ran into the upper limit and the press that left edit
\* mode committed the clamped value
C32_Witness ==
    /\ phase = "run" /\ ~editingSetpoint_ /\ turns > 0
    /\ hist.uiCommit = F(UI_MAX_PPM)
    /\ co2Setpoint = F(UI_MAX_PPM)
    /\ hist.load.seen = FALSE /\ hist.initLoad.value = 2500

\* the second of two accepted presses with no TURN event between them
SecondPressNoTurn == AcceptedPress /\ editingSetpoint_ /\ ~hist.turned

C33_Step == SecondPressNoTurn => co2Setpoint' = co2Setpoint

\* C33 (entering and leaving edit mode without turning is a no-op on the
\* setpoint): for every interleaving of the rotary-event task, updateUI and
\* remote commands, two accepted presses with no turn between them leave
\* co2Setpoint equal to the value it had just before the second press.
C33_PressPressNoOp == [][C33_Step]_vars

\* ------------------------------------------------------ frame conditions
\* a statement of updateControl() ran in this step
UpdateStep == phase = "run" /\ phase' = "run" /\ InUpdate /\ pc' # pc
\* valveTimerCallback ran in this step
CallbackStep == phase = "run" /\ phase' = "run" /\ TimerDue /\ ~timerActive'
\* a remote command was handled in this step and called setCO2Setpoint()
SetStep == cmds' = cmds + 1 /\ hist'.cmd.writes # <<>>

C34_Step ==
    /\ (UpdateStep \/ CallbackStep) =>
          co2Setpoint' = co2Setpoint /\ eeprom' = eeprom
    /\ CallbackStep =>
          /\ UNCHANGED <<tick, phase, readv, fanv, sens, uiv, pc, locals>>
          /\ ~valveOpen => UNCHANGED valv
    /\ SetStep => UNCHANGED <<valv, fanv>>

\* C34 (frame conditions of the control path): updateControl() and
\* valveTimerCallback never change co2Setpoint and never write to the store;
\* valveTimerCallback changes nothing but the valve state and
\* lastValveCloseTick, and nothing at all when the valve is already closed;
\* setCO2Setpoint() changes neither the valve state, the fan command, the
\* override flag nor lastValveCloseTick.
C34_Frame == [][C34_Step]_vars

\* the timer expired after a safety close had already closed the valve (the
\* callback found it closed and left the stamp of that close alone), and a
\* remote command has set the setpoint during this updateControl() call
C34_Witness ==
    /\ phase = "run" /\ ~valveOpen /\ ~timerActive
    /\ hist.closedBy = "safety" /\ lastValveCloseTick = hist.closedAt
    /\ tick >= timerExpiry /\ timerExpiry > hist.closedAt
    /\ hist.cmd.seen /\ hist.cmd.writes # <<>>

\* ----------------------------------------------------- injection liveness
\* the valve was closed by the timer, early enough for an update to run
\* 30000 ms later within the ticks followed
ClosedInTime ==
    /\ phase = "run" /\ ~valveOpen /\ hist.closedBy = "timer"
    /\ hist.closedAt + pdMS_TO_TICKS(VALVE_COOLDOWN_MS)
          + pdMS_TO_TICKS(SENSOR_PERIOD_MS) + MaxJitter <= MaxLiveTick

\* an update that reads the tick counter 30000 ms or more after the close,
\* and finds the valve closed, opens it
C35_Step ==
    (/\ pc = "L146" /\ pc' # pc /\ phase' = "run"
     /\ ~valveOpen /\ hist.closedAt # NoTick
     /\ now >= hist.closedAt + pdMS_TO_TICKS(VALVE_COOLDOWN_MS))
    => pc' = "L149"

\* C35 (injection liveness): when updateControl() keeps being invoked and
\* every invocation sees currentCO2 < co2Setpoint and currentCO2 <= 2000, the
\* valve is opened again and again: each time it is closed it is opened again
\* by the first update that runs at least 30000 ms after the close.
C35_InjectionLiveness ==
    /\ [][C35_Step]_vars
    /\ ClosedInTime ~> valveOpen

\* the valve is open for the second time: the timer closed the first
\* injection and an update opened the valve again 30000 ms later
C35_Witness ==
    /\ valveOpen /\ hist.ucOpened
    /\ now >= lastValveCloseTick + pdMS_TO_TICKS(VALVE_COOLDOWN_MS)
    /\ lastValveCloseTick >= pdMS_TO_TICKS(VALVE_COOLDOWN_MS)
                               + pdMS_TO_TICKS(VALVE_TIMER_MS)

\* -------------------------------------------------------- pressure decode
\* v is the float quotient of the signed raw and d, in the model's fixed
\* point (which rounds toward zero)
IsSignedQuotient(v, raw, d) == v * d - F(raw) < d /\ F(raw) - v * d < d

\* C36 (pressure decode): for every pair of bytes (b0, b1) a successful
\* 2-byte read returns, the raw value used is the two's-complement signed
\* 16-bit reading of b0 * 256 + b1 (b0 the high byte), so it lies in
\* [-32768, 32767], and the stored pressure is raw / 60.
C36_PressureDecode ==
    (Returned("pres") /\ hist.call.res.ok) =>
        LET b0  == hist.call.in.b0
            b1  == hist.call.in.b1
            raw == IF b0 >= 128 THEN b0 * 256 + b1 - 65536 ELSE b0 * 256 + b1
        IN  /\ 0 - 32768 <= raw /\ raw <= 32767
            /\ IsSignedQuotient(pressurePa, raw, PRESSURE_DIVISOR)
            /\ (raw < 0 => pressurePa <= F(0)) /\ (raw > 0 => pressurePa >= F(0))

\* the sensor answered 0x80 0x00: raw is -32768 and the stored pressure is
\* -546.13 Pa
C36_Witness ==
    /\ Returned("pres") /\ hist.call.res.ok
    /\ hist.call.in.b0 = 128 /\ hist.call.in.b1 = 0
    /\ pressurePa = DivF(F(0 - 32768), PRESSURE_DIVISOR)
    /\ pressurePa <= F(0 - 546) /\ pressurePa > F(0 - 547)

\* ------------------------------------------------------ tick wraparound
\* The true number of ticks since lastValveCloseTick was recorded is
\* hist.wraps * 2^32 + (now - lastValveCloseTick). It is below 2^32 when no
\* period has passed, or when one has and the counter is behind the stamp.
TrueBelowPeriod ==
    \/ hist.wraps = 0 /\ now >= lastValveCloseTick
    \/ hist.wraps = 1 /\ now < lastValveCloseTick
\* ... and it is at least 30000
TrueCooldownOver ==
    \/ hist.wraps >= 1
    \/ now - lastValveCloseTick >= pdMS_TO_TICKS(VALVE_COOLDOWN_MS)
\* the 16-bit halves of the true number of ticks, when it is below 2^32
TrueHalves ==
    LET d == now - lastValveCloseTick
    IN  IF d >= 0
        THEN <<d \div 65536, d % 65536>>
        ELSE <<65535 - ((0 - d - 1) \div 65536), 65535 - ((0 - d - 1) % 65536)>>

\* line 144 computes elapsed
C37_Step ==
    (pc = "L144" /\ pc' = "L146") =>
        /\ TrueBelowPeriod => elapsed' = TrueHalves
        /\ TrueCooldownOver =>
              (elapsed'[1] > 0
                 \/ elapsed'[2] >= pdMS_TO_TICKS(VALVE_COOLDOWN_MS))

\* C37 (cooldown arithmetic across tick wraparound): with the 32-bit tick
\* counter wrapping modulo 2^32, elapsed = now - lastValveCloseTick equals
\* the true number of ticks since the last close whenever that number is
\* below 2^32, and the test elapsed >= 30000 is never false when 30000 ms
\* or more have really passed since the last close, also when the valve has
\* stayed closed for longer than a full counter period.
C37_WrapSafe == [][C37_Step]_vars

====
